---- MODULE Spec2Model ----
(***************************************************************************)
(* A model of the backtester of nchu05/millennium-data-quality:            *)
(*   - SimpleBacktestEngine.run_backtest (backtester/backtest_engine.py),  *)
(*     as a state machine over the order loop, one action per outcome of   *)
(*     one loop iteration;                                                 *)
(*   - MeanReversionOrderGenerator.generate_orders                         *)
(*     (backtester/order_generator.py), one action per ticker column.      *)
(* Prices and cash are integers here (the code computes in floats).        *)
(***************************************************************************)
EXTENDS Integers, Sequences, FiniteSets, TLC

\* ---------------------------------------------------------------- bounds
\* The longest order list handed to run_backtest.
MaxOrders == 2
\* How many times run_backtest is called on the one engine instance.
MaxRuns == 2

\* The values the inputs are drawn from.
Tickers == {"A", "B"}
Dates == {1, 2}
Prices == {1, 2}
Quantities == {1, 2}
InitialCashes == {0, 2}
OrderTypes == {"BUY", "SELL"}

\* data.loc[date, "Close"] finds no value (the date is not in the index, or
\* the table has no "Close" column): the lookup raises KeyError.  Prices are
\* positive, so 0 stands for "no entry".
NoPrice == 0

Orders == [date : Dates, type : OrderTypes, ticker : Tickers, quantity : Quantities]

RECURSIVE SeqsUpTo(_, _)
SeqsUpTo(S, n) ==
    IF n = 0 THEN {<<>>}
    ELSE LET shorter == SeqsUpTo(S, n - 1)
         IN  shorter \cup {Append(s, x) : s \in {t \in shorter : Len(t) = n - 1}, x \in S}

\* ----------------------------------------------------------------- state
VARIABLES
    initial_cash,      \* self.initial_cash, set by __init__
    orders,            \* the orders argument of run_backtest
    data,              \* the data argument: date -> its "Close" price, or NoPrice
    pc,                \* "idle" | "loop" | "returned" | "raised"
    i,                 \* 1-based position in orders of the order the loop is at
    cash,              \* local cash
    holdings,          \* local holdings: one share count for the whole portfolio
    portfolio_values,  \* local list of (date, portfolio value)
    stdout,            \* what the call in progress has printed, one line per order
    results,           \* what each finished call gave its caller
    frame,             \* generate_orders' data argument: column -> price series
    mr_pc,             \* generate_orders: "idle" | "tickers" | "returned"
    mr_col,            \* 1-based position in data.columns of the ticker loop
    mr_orders,         \* generate_orders' local list orders
    bab_capital,       \* BettingAgainstBeta: self.starting_portfolio_value
    bab_spy,           \* data.get('SPY'): "none" | "short" | "ok"
    bab_obs,           \* per rebalance date: ticker -> aligned return observations
    bab_beta,          \* ticker -> what calculate_beta gives for it, or NaNBeta
    bab_pc,            \* "idle" | "dates" | "returned" | "raised"
    bab_date,          \* 1-based position in rebalance_dates of the date loop
    bab_orders,        \* generate_orders' local list all_orders
    bab_log,           \* per rebalance date visited: what the loop did with it
    bab_fd,            \* the last direct call of generate_orders_for_date
    smr_capital,       \* StableMinusRisky: self.starting_portfolio_value
    smr_fd,            \* the last call of its generate_orders_for_date
    met_args,          \* calculate: the class called and its arguments
    met_result         \* calculate: the returned metrics mapping

engineVars == <<initial_cash, orders, data, pc, i, cash, holdings,
                portfolio_values, stdout, results>>
mrVars == <<frame, mr_pc, mr_col, mr_orders>>
babVars == <<bab_capital, bab_spy, bab_obs, bab_beta, bab_pc, bab_date,
             bab_orders, bab_log, bab_fd>>
smrVars == <<smr_capital, smr_fd>>
metVars == <<met_args, met_result>>
vars == <<engineVars, mrVars, babVars, smrVars, metVars>>

\* No call of the component is in progress and it holds no input.
EngineIdle ==
    /\ initial_cash = 0
    /\ orders = <<>>
    /\ data = <<>>
    /\ pc = "idle"
    /\ i = 1
    /\ cash = 0
    /\ holdings = 0
    /\ portfolio_values = <<>>
    /\ stdout = <<>>
    /\ results = <<>>
MrIdle ==
    /\ frame = <<>>
    /\ mr_pc = "idle"
    /\ mr_col = 1
    /\ mr_orders = <<>>
BabIdle ==
    /\ bab_capital = 0
    /\ bab_spy = "none"
    /\ bab_obs = <<>>
    /\ bab_beta = <<>>
    /\ bab_pc = "idle"
    /\ bab_date = 1
    /\ bab_orders = <<>>
    /\ bab_log = <<>>
    /\ bab_fd = <<>>
SmrIdle ==
    /\ smr_capital = 0
    /\ smr_fd = <<>>
MetIdle ==
    /\ met_args = <<>>
    /\ met_result = <<>>

\* ------------------------------------------------------- run_backtest
\* data.loc[date, "Close"]
ClosePrice(date) == data[date]

\* The lookup of line 31 succeeds.
FoundDefaultZero(date) == TRUE
Found(date) == data[date] # NoPrice

\* Line 26: cash = self.initial_cash
StartCash == initial_cash

\* Line 27: holdings = 0
StartHoldingsCarried == holdings
StartHoldings == 0

\* Line 38: if holdings >= quantity
CanSellAlways(quantity) == TRUE
CanSell(quantity) == holdings >= quantity

\* Line 45
PortfolioValueCashOnly(c, h, close_price) == c
PortfolioValue(c, h, close_price) == c + h * close_price

\* Line 47: portfolio_values.append((date, portfolio_value))
RecordPerDate(series, date, value) ==
    IF \E k \in 1..Len(series) : series[k][1] = date
    THEN [k \in 1..Len(series) |->
             IF series[k][1] = date THEN <<date, value>> ELSE series[k]]
    ELSE Append(series, <<date, value>>)
Record(series, date, value) == Append(series, <<date, value>>)

\* Line 49: the DataFrame built from portfolio_values, indexed by Date
ReturnValuePerTableDate ==
    LET present == {d \in Dates : data[d] # NoPrice}
        ord == CHOOSE s \in [1..Cardinality(present) -> present] :
                   \A a, b \in DOMAIN s : a < b => s[a] < s[b]
    IN  [k \in DOMAIN ord |-> <<ord[k], initial_cash>>]
ReturnValue == portfolio_values

\* Lines 24-27: the call starts.
Call ==
    /\ pc \in {"idle", "returned", "raised"}
    /\ Len(results) < MaxRuns
    /\ pc' = "loop"
    /\ portfolio_values' = <<>>
    /\ cash' = StartCash
    /\ holdings' = StartHoldings
    /\ i' = 1
    /\ stdout' = <<>>
    /\ UNCHANGED <<mrVars, babVars, smrVars, metVars, initial_cash, orders, data, results>>

AtOrder == pc = "loop" /\ i <= Len(orders)

\* Line 31 raises KeyError: the exception leaves run_backtest.
RaiseKeyError ==
    /\ AtOrder
    /\ ~Found(orders[i].date)
    /\ pc' = "raised"
    /\ results' = Append(results, [status |-> "KeyError", series |-> <<>>])
    /\ UNCHANGED <<mrVars, babVars, smrVars, metVars, initial_cash, orders, data, i, cash, holdings,
                   portfolio_values, stdout>>

\* Lines 34-36 and 45-47.
Buy ==
    /\ AtOrder
    /\ Found(orders[i].date)
    /\ orders[i].type = "BUY"
    /\ LET date == orders[i].date
           close_price == ClosePrice(date)
           quantity == orders[i].quantity
           c == cash - close_price * quantity
           h == holdings + quantity
       IN  /\ cash' = c
           /\ holdings' = h
           /\ portfolio_values' =
                  Record(portfolio_values, date, PortfolioValue(c, h, close_price))
           /\ stdout' = Append(stdout, [date |-> date, line |-> "value"])
    /\ i' = i + 1
    /\ UNCHANGED <<mrVars, babVars, smrVars, metVars, initial_cash, orders, data, pc, results>>

\* Lines 37-40 and 45-47.
Sell ==
    /\ AtOrder
    /\ Found(orders[i].date)
    /\ orders[i].type = "SELL"
    /\ CanSell(orders[i].quantity)
    /\ LET date == orders[i].date
           close_price == ClosePrice(date)
           quantity == orders[i].quantity
           c == cash + close_price * quantity
           h == holdings - quantity
       IN  /\ cash' = c
           /\ holdings' = h
           /\ portfolio_values' =
                  Record(portfolio_values, date, PortfolioValue(c, h, close_price))
           /\ stdout' = Append(stdout, [date |-> date, line |-> "value"])
    /\ i' = i + 1
    /\ UNCHANGED <<mrVars, babVars, smrVars, metVars, initial_cash, orders, data, pc, results>>

\* Lines 41-43: the order is skipped; `continue` also skips lines 45-47.
SkipSell ==
    /\ AtOrder
    /\ Found(orders[i].date)
    /\ orders[i].type = "SELL"
    /\ ~CanSell(orders[i].quantity)
    /\ stdout' = Append(stdout, [date |-> orders[i].date, line |-> "skip"])
    /\ i' = i + 1
    /\ UNCHANGED <<mrVars, babVars, smrVars, metVars, initial_cash, orders, data, pc, cash, holdings,
                   portfolio_values, results>>

\* Line 49: the loop is over.
Return ==
    /\ pc = "loop"
    /\ i > Len(orders)
    /\ pc' = "returned"
    /\ results' = Append(results, [status |-> "ok", series |-> ReturnValue])
    /\ UNCHANGED <<mrVars, babVars, smrVars, metVars, initial_cash, orders, data, i, cash, holdings,
                   portfolio_values, stdout>>

\* SimpleBacktestEngine(initial_cash) has been constructed; the caller holds
\* the orders and the price table it will pass to run_backtest.
Init ==
    /\ initial_cash \in InitialCashes
    /\ orders \in SeqsUpTo(Orders, MaxOrders)
    /\ data \in [Dates -> Prices \cup {NoPrice}]
    /\ pc = "idle"
    /\ i = 1
    /\ cash = 0
    /\ holdings = 0
    /\ portfolio_values = <<>>
    /\ stdout = <<>>
    /\ results = <<>>
    /\ MrIdle
    /\ BabIdle
    /\ SmrIdle
    /\ MetIdle

Next == Call \/ RaiseKeyError \/ Buy \/ Sell \/ SkipSell \/ Return

Spec == Init /\ [][Next]_vars

\* ------------------------------------------------- run_backtest: claims
\* The series the last finished call returned.
LastResult == results[Len(results)]

\* The loop consumes the order at position i in this step.
ConsumesOrder == AtOrder /\ i' = i + 1

\* An order that printed a "Portfolio Value" line was applied; one that
\* printed the "Skipping order" line was rejected.
Applied(k) == stdout[k].line = "value"

\* The net shares of ticker t bought and sold by the applied orders among
\* the first n orders of the call in progress.
RECURSIVE SharesOf(_, _)
SharesOf(t, n) ==
    IF n = 0 THEN 0
    ELSE SharesOf(t, n - 1)
         + (IF Applied(n) /\ orders[n].ticker = t
            THEN (IF orders[n].type = "BUY" THEN orders[n].quantity
                  ELSE 0 - orders[n].quantity)
            ELSE 0)
SharesHeld(t) == SharesOf(t, Len(stdout))

EntryDates(series) == [k \in 1..Len(series) |-> series[k][1]]
StrictlyIncreasing(s) == \A a, b \in 1..Len(s) : a < b => s[a] < s[b]
OrderDates == [k \in 1..Len(orders) |-> orders[k].date]
MissingDate(k) == data[orders[k].date] = NoPrice

\* C1: the holdings count is never negative in any state of a run, and a
\* SELL whose quantity exceeds the current holdings leaves cash and
\* holdings as they were before that order.
C1_HoldingsNeverNegative ==
    /\ [](holdings >= 0)
    /\ [][(ConsumesOrder /\ orders[i].type = "SELL"
             /\ orders[i].quantity > holdings)
          => (cash' = cash /\ holdings' = holdings)]_vars

\* C1 witness: a SELL was rejected while shares were held.
C1_Witness ==
    /\ pc = "loop"
    /\ holdings > 0
    /\ \E k \in 1..Len(stdout) : ~Applied(k) /\ orders[k].type = "SELL"

\* C2 (as claimed): starting from a non-negative initial cash, cash is never
\* negative, and a BUY whose cost exceeds the current cash leaves cash and
\* holdings as they were.
C2_CashNeverNegative ==
    /\ [](cash >= 0)
    /\ [][(ConsumesOrder /\ orders[i].type = "BUY"
             /\ ClosePrice(orders[i].date) * orders[i].quantity > cash)
          => (cash' = cash /\ holdings' = holdings)]_vars

\* C3 (as claimed): a SELL of quantity q of ticker T is rejected, with cash
\* and holdings unchanged, whenever fewer than q shares of T itself are
\* held, whatever is held of other tickers.
C3_PerTickerHoldingsCheck ==
    [][(ConsumesOrder /\ orders[i].type = "SELL"
          /\ SharesHeld(orders[i].ticker) < orders[i].quantity)
       => (cash' = cash /\ holdings' = holdings
           /\ portfolio_values' = portfolio_values)]_vars

\* C4 (as claimed): when every order is a rejected SELL, the call returns a
\* series that has, for each order's date, an entry whose value is
\* initial_cash.
C4_RejectedSellsStillValued ==
    (/\ pc = "returned"
     /\ Len(orders) > 0
     /\ \A k \in 1..Len(orders) : orders[k].type = "SELL" /\ ~Applied(k))
    => \A k \in 1..Len(orders) :
           \E e \in 1..Len(LastResult.series) :
               LastResult.series[e] = <<orders[k].date, initial_cash>>

\* C5 (as claimed): a single BUY whose cost exceeds initial_cash is rejected
\* (cash and holdings stay at initial_cash and 0) and the returned series is
\* exactly one entry, for that date, of value initial_cash.
C5_UnaffordableBuyRejected ==
    (/\ pc = "returned"
     /\ Len(orders) = 1
     /\ orders[1].type = "BUY"
     /\ ClosePrice(orders[1].date) * orders[1].quantity > initial_cash)
    => /\ cash = initial_cash
       /\ holdings = 0
       /\ LastResult.series = << <<orders[1].date, initial_cash>> >>

\* C6 (as claimed): for an empty order sequence the returned series has
\* exactly one entry per date of the price table, each of value initial_cash.
C6_EmptyOrdersOneEntryPerDate ==
    (pc = "returned" /\ orders = <<>>)
    => LET series == LastResult.series
       IN  /\ \A d \in Dates :
                  data[d] # NoPrice
                  => Cardinality({k \in 1..Len(series) : series[k][1] = d}) = 1
           /\ \A k \in 1..Len(series) :
                  data[series[k][1]] # NoPrice /\ series[k][2] = initial_cash

\* C6 (amended): for an empty order sequence the call returns an empty
\* series, whatever dates the price table holds.
C6_EmptyOrdersEmptySeries ==
    (pc = "returned" /\ orders = <<>>)
    => (LastResult.status = "ok" /\ LastResult.series = <<>>)

\* C6 witness: a call with no orders returned, over a table that has dates.
C6_Witness ==
    /\ pc = "returned"
    /\ orders = <<>>
    /\ \A d \in Dates : data[d] # NoPrice

C8_RunsAgree ==
    \A a, b \in 1..Len(results) : results[a] = results[b]

\* C8 witness: a second call has returned, after a first one that ended
\* holding shares and with its cash spent.
C8_Witness ==
    /\ Len(results) = 2
    /\ pc = "returned"
    /\ holdings > 0
    /\ cash # initial_cash
    /\ results[1].series # <<>>

\* C9: if an order's date has no entry in the price table, the call ends in
\* KeyError at the first such order and returns no series; no order after it
\* is processed.
C9_MissingDateRaises ==
    (/\ pc \in {"returned", "raised"}
     /\ \E k \in 1..Len(orders) : MissingDate(k))
    => /\ pc = "raised"
       /\ LastResult = [status |-> "KeyError", series |-> <<>>]
       /\ MissingDate(i)
       /\ \A k \in 1..(i - 1) : ~MissingDate(k)
       /\ Len(stdout) = i - 1

\* C9 witness: the call raised at an order that has, after it, an order whose
\* date the table does hold.
C9_Witness ==
    /\ pc = "raised"
    /\ i < Len(orders)
    /\ \E k \in 1..Len(orders) : k > i /\ ~MissingDate(k)


\* C18: applying an accepted order at price p leaves cash + holdings * p
\* unchanged, and the value recorded right after the order is that amount;
\* so the first value a run records is initial_cash.
C18_NoCostBookkeeping ==
    /\ [][(ConsumesOrder /\ Len(portfolio_values') = Len(portfolio_values) + 1)
          => LET p == ClosePrice(orders[i].date)
             IN  /\ cash' + holdings' * p = cash + holdings * p
                 /\ portfolio_values'[Len(portfolio_values')]
                        = <<orders[i].date, cash + holdings * p>>]_vars
    /\ [](Len(portfolio_values) >= 1 => portfolio_values[1][2] = initial_cash)

\* C18 witness: a run recorded a first value while holding shares, then a
\* second value, at another price, that is not initial_cash.
C18_Witness ==
    /\ pc = "returned"
    /\ Len(portfolio_values) = 2
    /\ portfolio_values[1][2] = initial_cash
    /\ portfolio_values[2][2] # initial_cash

\* ------------------------------- MeanReversionOrderGenerator.generate_orders
\* rolling(window=100)
Window == 100
\* "quantity": 100 in every order
OrderQuantity == 100
\* A missing price (NaN) in a column.  Prices are positive, so 0 stands for it.
NaN == 0

\* The longest price table has Window + MaxExtra rows.
MaxExtra == 2

\* data.columns, in column order.
Columns == <<"A", "B">>

\* The price tables the generator is run on: every column has the same N
\* rows; a column is 2 everywhere but at its first row, its row
\* number Window and its last row, each of which holds any of CellValues.
CellValues == {NaN, 1, 2, 3}
Lengths == {0, 1, Window - 1} \cup {Window + e : e \in 0..MaxExtra}
Column(n, first, atWindow, last) ==
    [k \in 1..n |-> IF k = n THEN last
                    ELSE IF k = 1 THEN first
                    ELSE IF k = Window THEN atWindow
                    ELSE 2]
ColumnsOf(n) == {Column(n, a, b, c) : a \in CellValues, b \in CellValues, c \in CellValues}
Frames == UNION {[{Columns[c] : c \in 1..Len(Columns)} -> ColumnsOf(n)] : n \in Lengths}

\* The rows a rolling window ending at row k covers.
WindowStart(k) == IF k > Window THEN k - Window + 1 ELSE 1

RECURSIVE SumRows(_, _, _)
SumRows(s, a, b) ==
    IF a > b THEN 0
    ELSE IF a = b THEN s[a]
    ELSE LET m == (a + b) \div 2
         IN  SumRows(s, a, m) + SumRows(s, m + 1, b)

\* rolling(window=100).mean() at row k is a number (not NaN): with the
\* default min_periods = window, the window must hold Window observations,
\* none of them missing.
RollingDefinedMinPeriods1(s, k) ==
    \A j \in WindowStart(k)..k : s[j] # NaN
RollingDefined(s, k) ==
    /\ k >= Window
    /\ \A j \in WindowStart(k)..k : s[j] # NaN

\* row['Adj Close'] < row['100_day_avg'], the mean being sum / count.
BelowOrEqualAverage(s, k) ==
    s[k] * (k - WindowStart(k) + 1) <= SumRows(s, WindowStart(k), k)
BelowAverage(s, k) ==
    s[k] * (k - WindowStart(k) + 1) < SumRows(s, WindowStart(k), k)

\* Lines 26-29: the order the row k of the ticker's column adds.  The row's
\* date is its 0-based position in the index.
RowOrder(ticker, k) ==
    [date |-> k - 1,
     type |-> IF BelowAverage(frame[ticker], k) THEN "BUY" ELSE "SELL",
     ticker |-> ticker,
     quantity |-> OrderQuantity]

\* Lines 23-29: the inner loop over the ticker's rows, in index order; a row
\* whose average is NaN adds nothing (lines 24-25).
TickerOrders(ticker) ==
    LET s == frame[ticker]
        HasAverage(k) == RollingDefined(s, k)
        rows == SelectSeq([k \in 1..Len(s) |-> k], HasAverage)
    IN  [j \in 1..Len(rows) |-> RowOrder(ticker, rows[j])]

\* Lines 16-17
GenCall ==
    /\ mr_pc = "idle"
    /\ mr_pc' = "tickers"
    /\ mr_orders' = <<>>
    /\ mr_col' = 1
    /\ UNCHANGED <<engineVars, babVars, smrVars, metVars, frame>>

\* Lines 19-29: one pass of the loop over the tickers.
GenTicker ==
    /\ mr_pc = "tickers"
    /\ mr_col <= Len(Columns)
    /\ mr_orders' = mr_orders \o TickerOrders(Columns[mr_col])
    /\ mr_col' = mr_col + 1
    /\ UNCHANGED <<engineVars, babVars, smrVars, metVars, frame, mr_pc>>

\* Line 31
GenReturn ==
    /\ mr_pc = "tickers"
    /\ mr_col > Len(Columns)
    /\ mr_pc' = "returned"
    /\ UNCHANGED <<engineVars, babVars, smrVars, metVars, frame, mr_col, mr_orders>>

\* The caller holds a price table; no engine call is in progress.
InitMR ==
    /\ frame \in Frames
    /\ mr_pc = "idle"
    /\ mr_col = 1
    /\ mr_orders = <<>>
    /\ EngineIdle
    /\ BabIdle
    /\ SmrIdle
    /\ MetIdle

NextMR == GenCall \/ GenTicker \/ GenReturn

SpecMR == InitMR /\ [][NextMR]_vars

\* ------------------------------------------------ generate_orders: claims
OrdersOf(ticker) ==
    LET Mine(o) == o.ticker = ticker
    IN  SelectSeq(mr_orders, Mine)
NoMissingPrice(ticker) == \A k \in 1..Len(frame[ticker]) : frame[ticker][k] # NaN

\* C10: per ticker, a column of fewer than Window rows gives no order; no
\* order is dated before the row of 0-based index Window - 1; and a column
\* of at least Window rows with no missing price gives a first order dated
\* exactly at index Window - 1.
C10_FirstOrderAtWindow ==
    mr_pc = "returned"
    => \A c \in 1..Len(Columns) :
          LET t == Columns[c]
              mine == OrdersOf(t)
          IN  /\ Len(frame[t]) < Window => mine = <<>>
              /\ \A k \in 1..Len(mine) : mine[k].date >= Window - 1
              /\ (Len(frame[t]) >= Window /\ NoMissingPrice(t))
                 => (mine # <<>> /\ mine[1].date = Window - 1)

\* C10 witness: the generator returned orders for a column of more than
\* Window rows with no missing price, beside a column that has one.
C10_Witness ==
    /\ mr_pc = "returned"
    /\ Len(frame["A"]) > Window
    /\ NoMissingPrice("A")
    /\ ~NoMissingPrice("B")
    /\ Len(OrdersOf("A")) = Len(frame["A"]) - Window + 1

\* The trailing moving average of column s is defined at row k, and the
\* window's sum, both as the claim words them.
AverageDefinedAt(s, k) ==
    k >= Window /\ \A j \in (k - Window + 1)..k : s[j] # NaN
WindowTotal(s, k) == SumRows(s, k - Window + 1, k)

\* C16: for every ticker and row, the generator emits exactly one order when
\* the trailing moving average is defined there and none otherwise: a BUY
\* when the price is strictly below the average, a SELL otherwise (also
\* when it equals the average), of quantity 100; a ticker's orders are in
\* ascending date order.
C16_OneOrderPerDefinedAverage ==
    mr_pc = "returned"
    => \A c \in 1..Len(Columns) :
          LET t == Columns[c]
              s == frame[t]
              mine == OrdersOf(t)
          IN  /\ \A k \in 1..Len(s) :
                    LET at == {j \in 1..Len(mine) : mine[j].date = k - 1}
                    IN  IF AverageDefinedAt(s, k)
                        THEN /\ Cardinality(at) = 1
                             /\ \A j \in at :
                                   /\ mine[j].quantity = OrderQuantity
                                   /\ mine[j].type =
                                        IF s[k] * Window < WindowTotal(s, k)
                                        THEN "BUY" ELSE "SELL"
                        ELSE at = {}
              /\ \A a, b \in 1..Len(mine) : a < b => mine[a].date < mine[b].date

\* C16 witness: the generator returned, for one ticker, a SELL at a price
\* equal to its average followed by a BUY, and a SELL above the average for
\* the other.
C16_Witness ==
    /\ mr_pc = "returned"
    /\ \E k \in Window..Len(frame["A"]) :
          /\ AverageDefinedAt(frame["A"], k)
          /\ frame["A"][k] * Window = WindowTotal(frame["A"], k)
    /\ \E j \in 1..Len(OrdersOf("A")) : OrdersOf("A")[j].type = "BUY"
    /\ \E k \in Window..Len(frame["B"]) :
          /\ AverageDefinedAt(frame["B"], k)
          /\ frame["B"][k] * Window > WindowTotal(frame["B"], k)

\* ------------------------------------------ BettingAgainstBetaOrderGenerator
\* lookback_period: int = 60
LookbackPeriod == 60
\* if len(beta_values) < 20
MinTickers == 20
\* A beta that calculate_beta gives as NaN (zero market variance); dropna
\* removes it.  No beta of the model is this small.
NaNBeta == -99

\* The tickers of the data dict other than 'SPY' are 1..NumTickers.
NumTickers == 21
\* The most rebalance dates pd.date_range gives.
MaxRebalance == 2

BabTickers == 1..NumTickers
\* starting_portfolio_value
Capitals == {100000, 3}
\* The betas: ticker t has beta t, but for the first three tickers, which
\* take any of FreeBetas.  Betas differ wherever they can, since every tie
\* multiplies the orders a sort may give.
FreeBetas == {NaNBeta, 0 - MinTickers, -1, 0, 1, 3}
BetaTables ==
    {[t \in BabTickers |-> IF t = 1 THEN a ELSE IF t = 2 THEN b
                           ELSE IF t = 3 THEN c ELSE t] :
        a \in FreeBetas, b \in FreeBetas, c \in FreeBetas}
\* At a rebalance date the first e tickers have LookbackPeriod aligned return
\* observations and the others one fewer.
ListedCounts == {0, MinTickers - 1, MinTickers, NumTickers}
ObsTables ==
    {[t \in BabTickers |-> IF t <= e THEN LookbackPeriod ELSE LookbackPeriod - 1] :
        e \in ListedCounts}

Max(a, b) == IF a >= b THEN a ELSE b
Abs(a) == IF a >= 0 THEN a ELSE 0 - a
\* int(a / b): the quotient truncated towards zero.
Trunc(a, b) ==
    IF (a >= 0) = (b > 0) THEN Abs(a) \div Abs(b) ELSE 0 - (Abs(a) \div Abs(b))

RECURSIVE SumOver(_, _)
SumOver(f, xs) ==
    IF Len(xs) = 0 THEN 0 ELSE f[Head(xs)] + SumOver(f, Tail(xs))

\* Lines 51-69: calculate_betas at the rebalance date of position d: a
\* ticker with fewer than lookback_period aligned observations has no entry.
CalculateBetas(d) ==
    LET listed == {t \in BabTickers : ~(bab_obs[d][t] < LookbackPeriod)}
    IN  [t \in listed |-> bab_beta[t]]

\* Line 130
TooFewNever(beta_values) == FALSE
TooFew(beta_values) == Cardinality(DOMAIN beta_values) < MinTickers

\* Lines 72-73 and 165: pd.Series(values).dropna()
DropNa(values) == [t \in {x \in DOMAIN values : values[x] # NaNBeta} |-> values[t]]

\* Lines 77 and 170: max(int(num_stocks * 0.1), 1)
DecileSizeAtLeastTwo(num_stocks) == Max(num_stocks \div 10, 2)
DecileSize(num_stocks) == Max(num_stocks \div 10, 1)

\* Lines 74, 78-79 and 168, 171-172: sort_values(), then head(decile_size)
\* and tail(decile_size).  The sort leaves the order of equal values open,
\* so these are the <<head, tail>> pairs of every ascending order of series.
IsAscending(series, xs) ==
    \A a, b \in 1..Len(xs) : a < b => series[xs[a]] <= series[xs[b]]
SortedEnds(series, decile_size) ==
    LET all == DOMAIN series
        n == Cardinality(all)
        m == IF decile_size < n THEN decile_size ELSE n
        \* the tickers some ascending order puts among its first, last m
        first == {t \in all : Cardinality({x \in all : series[x] < series[t]}) < m}
        last == {t \in all : Cardinality({x \in all : series[x] > series[t]}) < m}
        In(xs) == {xs[k] : k \in 1..m}
        heads == {xs \in [1..m -> first] :
                     /\ \A a, b \in 1..m : a # b => xs[a] # xs[b]
                     /\ IsAscending(series, xs)
                     /\ \A t \in first \ In(xs) :
                            \A k \in 1..m : series[xs[k]] <= series[t]}
        tails == {xs \in [1..m -> last] :
                     /\ \A a, b \in 1..m : a # b => xs[a] # xs[b]
                     /\ IsAscending(series, xs)
                     /\ \A t \in last \ In(xs) :
                            \A k \in 1..m : series[t] <= series[xs[k]]}
    IN  {<<h, t>> \in heads \X tails :
            IF n >= 2 * m THEN In(h) \cap In(t) = {}
            ELSE \A k \in 1..m : h[k] = t[k]}

\* Lines 93 and 103: int(...) of a weight whose denominator is not zero
\* gives a number; of an infinite or NaN weight it raises.
ConvertsAlways(denominator) == TRUE
Converts(denominator) == denominator # 0

\* Lines 85-86, 93 and 103: int(capital * weight / decile_size), the weight
\* being numerator / denominator (the decile averages share their count, so
\* the weights are ratios of the decile sums).
BabQuantity(numerator, denominator, decile_size) ==
    IF denominator = 0 THEN 0
    ELSE Trunc(bab_capital * numerator, denominator * decile_size)

OrdersFor(tickers, date, type, quantity) ==
    [k \in 1..Len(tickers) |->
        [date |-> date, type |-> type, ticker |-> tickers[k], quantity |-> quantity]]

\* Lines 71-112: what generate_orders_for_date(beta_values, date) can end in.
BabOrdersForDate(beta_values, date) ==
    LET beta_series == DropNa(beta_values)
        decile_size == DecileSize(Cardinality(DOMAIN beta_series))
    IN  {LET low == ends[1]
             high == ends[2]
             sum_low == SumOver(beta_series, low)
             sum_high == SumOver(beta_series, high)
             total == sum_low + sum_high
         IN  IF Len(low) > 0 /\ ~Converts(total)
             THEN [status |-> "error", orders |-> <<>>]
             ELSE [status |-> "ok",
                   orders |->
                      OrdersFor(low, date, "BUY",
                                BabQuantity(sum_high, total, decile_size))
                      \o OrdersFor(high, date, "SELL",
                                   BabQuantity(sum_low, total, decile_size))] :
         ends \in SortedEnds(beta_series, decile_size)}

\* Lines 122-124: the rebalance dates are the positions 1..Len(bab_obs).
\* Lines 115-126: generate_orders starts.
BabCall ==
    /\ bab_pc = "idle"
    /\ bab_spy = "ok"
    /\ bab_pc' = "dates"
    /\ bab_date' = 1
    /\ bab_orders' = <<>>
    /\ bab_log' = <<>>
    /\ UNCHANGED <<engineVars, mrVars, smrVars, metVars, bab_capital, bab_spy,
                   bab_obs, bab_beta, bab_fd>>

\* Lines 116-117: ValueError, no SPY data.
BabNoSpy ==
    /\ bab_pc = "idle"
    /\ bab_spy = "none"
    /\ bab_pc' = "raised"
    /\ UNCHANGED <<engineVars, mrVars, smrVars, metVars, bab_capital, bab_spy,
                   bab_obs, bab_beta, bab_date, bab_orders, bab_log, bab_fd>>

\* Line 122: IndexError, SPY has no lookback_period-th return.
BabShortSpy ==
    /\ bab_pc = "idle"
    /\ bab_spy = "short"
    /\ bab_pc' = "raised"
    /\ UNCHANGED <<engineVars, mrVars, smrVars, metVars, bab_capital, bab_spy,
                   bab_obs, bab_beta, bab_date, bab_orders, bab_log, bab_fd>>

BabAtDate == bab_pc = "dates" /\ bab_date <= Len(bab_obs)

\* Lines 129-131: too few betas, continue.
BabSkipDate ==
    /\ BabAtDate
    /\ TooFew(CalculateBetas(bab_date))
    /\ bab_log' = Append(bab_log, [date |-> bab_date, what |-> "skipped"])
    /\ bab_date' = bab_date + 1
    /\ UNCHANGED <<engineVars, mrVars, smrVars, metVars, bab_capital, bab_spy,
                   bab_obs, bab_beta, bab_pc, bab_orders, bab_fd>>

\* Lines 129-133: the date's orders are added.
BabRebalance ==
    /\ BabAtDate
    /\ ~TooFew(CalculateBetas(bab_date))
    /\ \E out \in BabOrdersForDate(CalculateBetas(bab_date), bab_date) :
          /\ out.status = "ok"
          /\ bab_orders' = bab_orders \o out.orders
    /\ bab_log' = Append(bab_log, [date |-> bab_date, what |-> "rebalanced"])
    /\ bab_date' = bab_date + 1
    /\ UNCHANGED <<engineVars, mrVars, smrVars, metVars, bab_capital, bab_spy,
                   bab_obs, bab_beta, bab_pc, bab_fd>>

\* Line 132: generate_orders_for_date raises, and so does generate_orders.
BabRebalanceRaises ==
    /\ BabAtDate
    /\ ~TooFew(CalculateBetas(bab_date))
    /\ \E out \in BabOrdersForDate(CalculateBetas(bab_date), bab_date) :
          out.status = "error"
    /\ bab_log' = Append(bab_log, [date |-> bab_date, what |-> "raised"])
    /\ bab_pc' = "raised"
    /\ UNCHANGED <<engineVars, mrVars, smrVars, metVars, bab_capital, bab_spy,
                   bab_obs, bab_beta, bab_date, bab_orders, bab_fd>>

\* Line 135
BabReturn ==
    /\ bab_pc = "dates"
    /\ bab_date > Len(bab_obs)
    /\ bab_pc' = "returned"
    /\ UNCHANGED <<engineVars, mrVars, smrVars, metVars, bab_capital, bab_spy,
                   bab_obs, bab_beta, bab_date, bab_orders, bab_log, bab_fd>>

\* Lines 71-112: a caller's own generate_orders_for_date(beta_values, date),
\* with the betas of the first n tickers.
BabForDate ==
    /\ bab_pc = "idle"
    /\ bab_fd = <<>>
    /\ \E n \in 1..NumTickers :
          LET beta_values == [t \in 1..n |-> bab_beta[t]]
          IN  \E out \in BabOrdersForDate(beta_values, 1) :
                 bab_fd' = <<[beta_values |-> beta_values, date |-> 1,
                              status |-> out.status, orders |-> out.orders]>>
    /\ UNCHANGED <<engineVars, mrVars, smrVars, metVars, bab_capital, bab_spy,
                   bab_obs, bab_beta, bab_pc, bab_date, bab_orders, bab_log>>

\* BettingAgainstBetaOrderGenerator(...) has been constructed and the caller
\* holds the data dict.
InitBAB ==
    /\ bab_capital \in Capitals
    /\ \/ /\ bab_spy = "ok"
          /\ bab_obs \in SeqsUpTo(ObsTables, MaxRebalance)
          /\ bab_beta \in BetaTables
       \/ /\ bab_spy \in {"none", "short"}
          /\ bab_obs = <<>>
          /\ bab_beta \in BetaTables
    /\ bab_pc = "idle"
    /\ bab_date = 1
    /\ bab_orders = <<>>
    /\ bab_log = <<>>
    /\ bab_fd = <<>>
    /\ EngineIdle
    /\ MrIdle
    /\ SmrIdle
    /\ MetIdle

NextBAB ==
    \/ BabCall \/ BabNoSpy \/ BabShortSpy \/ BabSkipDate \/ BabRebalance
    \/ BabRebalanceRaises \/ BabReturn

\* generate_orders
SpecBAB == InitBAB /\ [][NextBAB]_vars

\* The generator has been constructed and the caller holds a dict of betas.
InitBABDate ==
    /\ bab_capital \in Capitals
    /\ bab_beta \in BetaTables
    /\ bab_spy = "none"
    /\ bab_obs = <<>>
    /\ bab_pc = "idle"
    /\ bab_date = 1
    /\ bab_orders = <<>>
    /\ bab_log = <<>>
    /\ bab_fd = <<>>
    /\ EngineIdle
    /\ MrIdle
    /\ SmrIdle
    /\ MetIdle

\* generate_orders_for_date, called on its own
SpecBABDate == InitBABDate /\ [][BabForDate]_vars

\* ------------------------------------ BettingAgainstBeta: claims
\* The tickers that have LookbackPeriod aligned observations at date d.
ListedAt(d) == {t \in BabTickers : bab_obs[d][t] >= LookbackPeriod}
OrdersDated(d) == {k \in 1..Len(bab_orders) : bab_orders[k].date = d}

\* The tickers of values that have a beta, and the sums of the m lowest and
\* of the m highest of their betas.
WithBeta(values) == {t \in DOMAIN values : values[t] # NaNBeta}
RECURSIVE SumLowest(_, _, _)
SumLowest(values, S, m) ==
    IF m = 0 \/ S = {} THEN 0
    ELSE LET t == CHOOSE x \in S : \A y \in S : values[x] <= values[y]
         IN  values[t] + SumLowest(values, S \ {t}, m - 1)
RECURSIVE SumHighest(_, _, _)
SumHighest(values, S, m) ==
    IF m = 0 \/ S = {} THEN 0
    ELSE LET t == CHOOSE x \in S : \A y \in S : values[x] >= values[y]
         IN  values[t] + SumHighest(values, S \ {t}, m - 1)
ClaimedDecile(n) == IF n \div 10 >= 1 THEN n \div 10 ELSE 1

C13_ZeroWeightSumRaises ==
    bab_fd # <<>>
    => LET values == bab_fd[1].beta_values
           n == Cardinality(WithBeta(values))
           m == ClaimedDecile(n)
           zero == n >= 1 /\ SumLowest(values, WithBeta(values), m)
                             + SumHighest(values, WithBeta(values), m) = 0
       IN  /\ zero => (bab_fd[1].status = "error" /\ bab_fd[1].orders = <<>>)
           /\ bab_fd[1].status = "error" => zero

\* C13 witness: the call raised on two or more betas whose lowest and
\* highest sum to 0.
C13_Witness ==
    /\ bab_fd # <<>>
    /\ bab_fd[1].status = "error"
    /\ Cardinality(WithBeta(bab_fd[1].beta_values)) >= 2

\* C15 (as claimed): every order a generator emits has a strictly positive
\* quantity; here, every order of BettingAgainstBeta's generate_orders.
C15_QuantitiesPositive ==
    \A k \in 1..Len(bab_orders) : bab_orders[k].quantity > 0

\* What C17 says of a call that gave `given` for `values`: decile_size BUY
\* orders for lowest-beta tickers, then decile_size SELL orders for
\* highest-beta tickers, all dated at the rebalance date.
DecileOrders(values, date, given) ==
    LET valid == WithBeta(values)
        n == Cardinality(valid)
        m == ClaimedDecile(n)
        buys == {given[k].ticker : k \in 1..m}
        sells == {given[k].ticker : k \in (m + 1)..(2 * m)}
    IN  /\ Len(given) = 2 * m
        /\ \A k \in 1..m : given[k].type = "BUY"
        /\ \A k \in (m + 1)..(2 * m) : given[k].type = "SELL"
        /\ \A k \in 1..(2 * m) : given[k].date = date
        /\ Cardinality(buys) = m /\ Cardinality(sells) = m
        /\ buys \subseteq valid /\ sells \subseteq valid
        /\ \A b \in buys : \A t \in valid \ buys : values[b] <= values[t]
        /\ \A x \in sells : \A t \in valid \ sells : values[t] <= values[x]
        /\ n >= MinTickers => buys \cap sells = {}

\* C17 (as claimed): for n tickers with a beta, every call gives
\* max(1, floor(0.1 * n)) BUY orders and as many SELL orders, as above.
C17_DecileOrdersAlways ==
    bab_fd # <<>>
    => DecileOrders(bab_fd[1].beta_values, bab_fd[1].date, bab_fd[1].orders)

\* C17 (amended): a call that returns, for n >= 1 tickers with a beta, gives
\* the decile orders as above; with no ticker that has a beta it returns no
\* order, and a call that raises gives none.
C17_DecileOrdersWhenReturned ==
    bab_fd # <<>>
    => LET f == bab_fd[1]
       IN  /\ (f.status = "ok" /\ WithBeta(f.beta_values) # {})
              => DecileOrders(f.beta_values, f.date, f.orders)
           /\ (f.status = "ok" /\ WithBeta(f.beta_values) = {})
              => f.orders = <<>>
           /\ f.status = "error" => f.orders = <<>>

\* C17 witness: a call returned two BUY and two SELL orders for twenty or
\* more betas, one of them NaN.
C17_Witness ==
    /\ bab_fd # <<>>
    /\ bab_fd[1].status = "ok"
    /\ Len(bab_fd[1].orders) = 4
    /\ WithBeta(bab_fd[1].beta_values) # DOMAIN bab_fd[1].beta_values

\* ------------------------------------ StableMinusRiskyOrderGenerator
\* starting_portfolio_value
SmrCapitals == {100000, 1}
\* The predicted returns: ticker t has return t, but for the first three
\* tickers; NaNBeta stands for a NaN return, which dropna removes.
FreeReturns == {NaNBeta, -1, 0, 3}
ReturnTables ==
    {[t \in BabTickers |-> IF t = 1 THEN a ELSE IF t = 2 THEN b
                           ELSE IF t = 3 THEN c ELSE t] :
        a \in FreeReturns, b \in FreeReturns, c \in FreeReturns}

\* Lines 171-172: risky_tickers is the head of the ascending sort and
\* stable_tickers its tail.
RiskyTickers(ends) == ends[1]
StableTickersHead(ends) == ends[1]
StableTickers(ends) == ends[2]

\* Lines 173-175, 178 and 188: int((capital / 2.0) / decile_size)
SmrQuantity(decile_size) == Trunc(smr_capital, 2 * decile_size)

\* Lines 179 and 189: if quantity > 0
SmrOrdersFor(tickers, date, type, quantity) ==
    IF quantity > 0 THEN OrdersFor(tickers, date, type, quantity) ELSE <<>>

\* Lines 164-197: what generate_orders_for_date(predicted_returns, date)
\* can return.
SmrOrdersForDate(predicted_returns, date) ==
    LET pr_series == DropNa(predicted_returns)
        decile_size == DecileSize(Cardinality(DOMAIN pr_series))
    IN  IF DOMAIN pr_series = {} THEN {<<>>}
        ELSE {SmrOrdersFor(StableTickers(ends), date, "BUY",
                           SmrQuantity(decile_size))
              \o SmrOrdersFor(RiskyTickers(ends), date, "SELL",
                              SmrQuantity(decile_size)) :
                 ends \in SortedEnds(pr_series, decile_size)}

\* Lines 164-197: generate_orders_for_date(predicted_returns, date), with
\* the returns of the first n tickers.
SmrForDate ==
    /\ smr_fd = <<>>
    /\ \E table \in ReturnTables, n \in 0..NumTickers :
          LET predicted_returns == [t \in 1..n |-> table[t]]
          IN  \E out \in SmrOrdersForDate(predicted_returns, 1) :
                 smr_fd' = <<[predicted_returns |-> predicted_returns,
                              date |-> 1, orders |-> out]>>
    /\ UNCHANGED <<engineVars, mrVars, babVars, metVars, smr_capital>>

\* StableMinusRiskyOrderGenerator(...) has been constructed.
InitSMR ==
    /\ smr_capital \in SmrCapitals
    /\ smr_fd = <<>>
    /\ EngineIdle
    /\ MrIdle
    /\ BabIdle
    /\ MetIdle

SpecSMR == InitSMR /\ [][SmrForDate]_vars

\* ------------------------------------ StableMinusRisky: claims
\* What C12 says of the orders `given` for `values`, with the decile that is
\* bought and the one that is sold taken by `lowBought`: every ticker of one
\* decile has a BUY and every ticker of the other a SELL, each with
\* quantity floor((capital / 2) / decile_size).
LegOrders(values, given, lowBought) ==
    LET valid == WithBeta(values)
        m == ClaimedDecile(Cardinality(valid))
        q == smr_capital \div (2 * m)
        With(type) == {given[k].ticker : k \in {j \in 1..Len(given) :
                          given[j].type = type /\ given[j].quantity = q}}
        lowType == IF lowBought THEN "BUY" ELSE "SELL"
        highType == IF lowBought THEN "SELL" ELSE "BUY"
        lowest == With(lowType)
        highest == With(highType)
    IN  /\ Cardinality(lowest) = m /\ Cardinality(highest) = m
        /\ lowest \subseteq valid /\ highest \subseteq valid
        /\ \A x \in lowest : \A t \in valid \ lowest : values[x] <= values[t]
        /\ \A x \in highest : \A t \in valid \ highest : values[t] <= values[x]
        /\ \A k \in 1..Len(given) : given[k].quantity = q

\* C12 (as claimed): every ticker of the lowest-return decile receives a BUY
\* and every ticker of the highest-return decile a SELL, each with quantity
\* floor((capital / 2) / decile_size).
C12_LowestBoughtHighestSold ==
    (smr_fd # <<>> /\ WithBeta(smr_fd[1].predicted_returns) # {})
    => LegOrders(smr_fd[1].predicted_returns, smr_fd[1].orders, TRUE)

\* C12 (amended): when floor((capital / 2) / decile_size) is at least 1,
\* every ticker of the highest-return decile receives a BUY and every ticker
\* of the lowest-return decile a SELL, each with that quantity, the BUY
\* orders first; when it is 0, or no ticker has a return, there is no order.
C12_HighestBoughtLowestSold ==
    smr_fd # <<>>
    => LET values == smr_fd[1].predicted_returns
           given == smr_fd[1].orders
           m == ClaimedDecile(Cardinality(WithBeta(values)))
       IN  IF WithBeta(values) = {} \/ smr_capital \div (2 * m) = 0
           THEN given = <<>>
           ELSE /\ LegOrders(values, given, FALSE)
                /\ Len(given) = 2 * m
                /\ \A k \in 1..m : given[k].type = "BUY"
                /\ \A k \in 1..Len(given) : given[k].date = smr_fd[1].date

\* C12 witness: a call gave orders for twenty or more returns, the ticker
\* bought first having a higher return than the ticker sold last.
C12_Witness ==
    /\ smr_fd # <<>>
    /\ Len(smr_fd[1].orders) = 4
    /\ smr_fd[1].orders[1].type = "BUY"
    /\ smr_fd[1].orders[4].type = "SELL"
    /\ smr_fd[1].predicted_returns[smr_fd[1].orders[1].ticker]
          > smr_fd[1].predicted_returns[smr_fd[1].orders[4].ticker]

\* ------------------------------------ Metrics: calculate
\* The longest returns series handed to calculate.
MaxReturns == 3
\* returns, in whole units, and benchmark_returns, None or a series
ReturnValues == {-1, 0, 1}
Benchmarks == {"None", "series"}
ReturnSeries == SeqsUpTo(ReturnValues, MaxReturns)

\* The keys every calculate sets whatever the benchmark, and the
\* benchmark-dependent ones.
PlainFields ==
    {"Daily Return", "Cumulative Return", "Log Return", "Volatility",
     "Sharpe Ratio", "Max Drawdown", "VaR 5%"}
BenchmarkFields == {"Information Coefficient", "Beta", "Alpha"}

\* metrics.py lines 19-47: ExtendedMetrics.calculate; the assignments of
\* 'Information Coefficient' are commented out and none is made to 'Beta'
\* or 'Alpha'.  A value is the kind of what the key maps to.
ExtendedMetricsResult(benchmark_returns) ==
    [k \in PlainFields |-> "number"]

\* backtest_engine.py lines 51-84: SimpleBacktestEngine.calculate
EngineMetricsResult(benchmark_returns) ==
    [k \in PlainFields \cup BenchmarkFields |->
        IF k \in BenchmarkFields /\ benchmark_returns = "None"
        THEN "None" ELSE "number"]

ExtendedCalculate ==
    /\ met_args = <<>>
    /\ \E returns \in ReturnSeries, benchmark_returns \in Benchmarks :
          /\ met_args' = <<[class |-> "ExtendedMetrics", returns |-> returns,
                            benchmark_returns |-> benchmark_returns]>>
          /\ met_result' = <<ExtendedMetricsResult(benchmark_returns)>>
    /\ UNCHANGED <<engineVars, mrVars, babVars, smrVars>>

EngineCalculate ==
    /\ met_args = <<>>
    /\ \E returns \in ReturnSeries, benchmark_returns \in Benchmarks :
          /\ met_args' = <<[class |-> "SimpleBacktestEngine",
                            returns |-> returns,
                            benchmark_returns |-> benchmark_returns]>>
          /\ met_result' = <<EngineMetricsResult(benchmark_returns)>>
    /\ UNCHANGED <<engineVars, mrVars, babVars, smrVars>>

InitMetrics ==
    /\ met_args = <<>>
    /\ met_result = <<>>
    /\ EngineIdle
    /\ MrIdle
    /\ BabIdle
    /\ SmrIdle

NextMetrics == ExtendedCalculate \/ EngineCalculate

SpecMetrics == InitMetrics /\ [][NextMetrics]_vars

\* C14 (as claimed): calculate without a benchmark returns a mapping that
\* has 'Information Coefficient', 'Beta' and 'Alpha', each mapped to None,
\* for ExtendedMetrics and for SimpleBacktestEngine.
C14_BenchmarkFieldsNull ==
    (met_args # <<>> /\ met_args[1].benchmark_returns = "None")
    => \A k \in BenchmarkFields :
          k \in DOMAIN met_result[1] /\ met_result[1][k] = "None"

====
